---------------------------- MODULE Spec2Model ----------------------------
(***************************************************************************)
(* A model of the two metalava developer scripts:                          *)
(*                                                                         *)
(*   scripts/gather-android-metalava-artifacts.py  (the Artifact Gatherer) *)
(*   scripts/refresh-baselines.py                  (the Baseline Refresher)*)
(*                                                                         *)
(* Each script is a straight-line procedure; every statement that reads or *)
(* changes the environment, the file system or the process state is one    *)
(* action, and a program counter orders them as the source does.           *)
(*                                                                         *)
(* Conventions                                                             *)
(*   - a file path is the sequence of its components, so that              *)
(*     "out/soong/lint/x.xml" is <<"out", "soong", "lint", "x.xml">>;      *)
(*   - an argparse "append" option that was never given is None in Python  *)
(*     and the empty sequence here (argparse never yields an empty list);  *)
(*   - an environment variable is a record [set, val].                     *)
(***************************************************************************)
EXTENDS Naturals, Sequences, FiniteSets

VARIABLES
    \* ---- Artifact Gatherer: inputs and environment
    top,            \* os.environ.get("ANDROID_BUILD_TOP")
    topIsDir,       \* whether os.chdir(top) can succeed
    argv,           \* the command line, but for the overrides: a record
                    \* [help, positionals, unknown, novalue]
    argStubSrcJar,  \* args.stub_src_jar (<<>> stands for None)
    \* ---- Artifact Gatherer: process and file-system state
    gpc,            \* position of the script
    cwdChanged,     \* os.chdir has been performed
    targets,        \* the local list "targets"
    buildCalls,     \* the subprocess.run invocations issued so far
    buildRc,        \* exit status of the last build (0 before any)
    srcFiles,       \* target paths that exist as files under the root
    destAtStart,    \* what the name output_dir held when the script began
    destEntry,      \* what the name output_dir holds now: "absent",
                    \* "present" (a directory or file, or a link to one)
                    \* or "dangling" (a symbolic link to nothing)
    mkdirCalls,     \* number of os.mkdir calls that succeeded
    destDir,        \* contents of output_dir: set of <<name, copied-from>>
    copyCalls,      \* number of shutil.copy calls that succeeded
    gexit           \* exit status of the script, set when it ends

VARIABLES
    \* ---- Baseline Refresher: inputs
    layout,         \* metalava_dir.glob("*/build.gradle.kts"), in the order
                    \* the glob yields: a sequence of [name, lines]
    rargv,          \* the command line, but for the names: [help, unknown]
    argProjects,    \* args.projects: the positional arguments
    \* ---- Baseline Refresher: process and file-system state
    rpc,            \* position of the script
    discovered,     \* the result of find_baseline_projects
    selected,       \* baseline_projects after the filter
    idx,            \* number of loop iterations begun
    reports,        \* files below out/metalava: set of [dir, name, isDir]
    baselines,      \* baseline files on disk: set of paths
    calls,          \* the subprocess.run invocations issued so far
    lastRc,         \* exit status of the last subprocess (0 before any)
    rerr,           \* what raised, when an exception ended the script
    rexit,          \* exit status of the script, set when it ends
    \* ---- Baseline Refresher: history, read by the properties only
    preReports,     \* "reports" when the current iteration began
    deletedReports,   \* the report files the script itself has unlinked
    deletedBaselines  \* the baseline files the script itself has unlinked

gvars == <<top, topIsDir, argv, argStubSrcJar, destAtStart, gpc,
           cwdChanged,
           targets, buildCalls, buildRc, srcFiles, destEntry, mkdirCalls,
           destDir, copyCalls, gexit>>

rvars == <<layout, rargv, argProjects, rpc, discovered, selected, idx, reports,
           baselines, calls, lastRc, rerr, rexit, preReports,
           deletedReports, deletedBaselines>>

vars == <<gvars, rvars>>

-----------------------------------------------------------------------------
(* Bounds of the model *)

\* longest list of --stub-src-jar overrides tried
MaxOverrides == 2

-----------------------------------------------------------------------------
(* Helpers *)

Range(s) == {s[i] : i \in DOMAIN s}

SeqsUpTo(S, n) == UNION {[1..k -> S] : k \in 0..n}

\* os.path.basename, as used by shutil.copy(src, dir) to name the copy
Basename(p) == p[Len(p)]

-----------------------------------------------------------------------------
(* Artifact Gatherer: target resolution (lines 61-102) *)

StubNames == << "api-stubs-docs-non-updatable",
                "system-api-stubs-docs-non-updatable",
                "test-api-stubs-docs-non-updatable",
                "module-lib-api-stubs-docs-non-updatable" >>

\* f"out/target/common/docs/{x}-stubs.srcjar"
StubPath(x) == <<"out", "target", "common", "docs", x \o "-stubs.srcjar">>

DefaultStubFiles == [i \in DOMAIN StubNames |-> StubPath(StubNames[i])]

JdiffFiles == << <<"out", "target", "common", "obj", "api.xml">>,
                 <<"out", "target", "common", "obj", "system-api.xml">>,
                 <<"out", "target", "common", "obj", "module-lib-api.xml">>,
                 <<"out", "target", "common", "obj", "system-server-api.xml">>,
                 <<"out", "target", "common", "obj", "test-api.xml">> >>

ApiVersionFiles == << <<"out", "soong", "lint", "api_versions_public.xml">>,
                      <<"out", "soong", "lint", "api_versions_system.xml">>,
                      <<"out", "soong", "lint", "api_versions_module_lib.xml">>,
                      <<"out", "soong", "lint", "api_versions_system_server.xml">> >>

\* Mutant of ResolveTargets: the defaults are appended whether or not
\* overrides were given (the "if not targets" guard is lost).
ResolveTargetsAlwaysDefaults(stub_src_jar) ==
    stub_src_jar \o DefaultStubFiles \o JdiffFiles \o ApiVersionFiles

\* targets = []; if args.stub_src_jar: targets += ...; if not targets: ...
ResolveTargets(stub_src_jar) ==
    LET t1 == IF stub_src_jar # <<>> THEN stub_src_jar ELSE <<>>
    IN  IF t1 = <<>>
        THEN LET stub_files == IF stub_src_jar # <<>> THEN stub_src_jar
                               ELSE DefaultStubFiles
             IN  t1 \o stub_files \o JdiffFiles \o ApiVersionFiles
        ELSE t1

-----------------------------------------------------------------------------
(* Artifact Gatherer: inputs *)

EnvUnset == [set |-> FALSE, val |-> ""]
EnvEmpty == [set |-> TRUE, val |-> ""]
EnvRoot  == [set |-> TRUE, val |-> "/android"]

\* Mutant of TopMissing: the check never fires.
TopMissingNever(t) == FALSE

\* "if not top": None and the empty string are both falsy
TopMissing(t) == ~t.set \/ t.val = ""

\* paths a user may pass with --stub-src-jar; two of them share a file name
OverridePaths == { <<"a", "x-stubs.srcjar">>,
                   <<"b", "x-stubs.srcjar">>,
                   <<"a", "y-stubs.srcjar">> }

OutputDir == <<"before">>

\* The command lines tried. "help": -h or --help is given (the parser is
\* built with argparse's default add_help); "positionals": the positional
\* arguments; "unknown": an option the parser does not declare is given;
\* "novalue": a --stub-src-jar without its value comes before any help
\* option.
CommandLines ==
    [help : BOOLEAN,
     positionals : {<<>>, <<OutputDir>>, <<OutputDir, <<"after">>>>},
     unknown : BOOLEAN,
     novalue : BOOLEAN]

\* args_parser.parse_args(args). An option that lacks its value is an
\* error as soon as it is read; the help option ends the parse when it is
\* read; a missing "directory", and then any argument left over (a second
\* positional, an undeclared option), are errors found at the end.
ParseOutcome(cl) ==
    IF cl.novalue THEN "error"
    ELSE IF cl.help THEN "help"
    ELSE IF Len(cl.positionals) = 0 THEN "error"
    ELSE IF Len(cl.positionals) > 1 \/ cl.unknown THEN "error"
    ELSE "ok"

\* the exit statuses the build may return
BuildStatuses == {0, 1}

\* Mutant of GatherCheck: the build is run without check=True.
GatherCheckOff == FALSE

\* subprocess.run(..., check=True) of the Gatherer
GatherCheck == TRUE

\* subprocess.run raises CalledProcessError iff check is set and rc # 0
RunRaises(check, rc) == check /\ rc # 0

\* what a name of the file system may hold
DestEntries == {"absent", "present", "dangling"}

\* Path.exists(): follows symbolic links, so a dangling link does not exist
PathExists(entry) == entry = "present"

\* os.mkdir raises FileExistsError when the name is taken, dangling links
\* included
NameTaken(entry) == entry # "absent"

GInit ==
    /\ top \in {EnvUnset, EnvEmpty, EnvRoot}
    /\ topIsDir \in BOOLEAN
    /\ argv \in CommandLines
    /\ argStubSrcJar \in SeqsUpTo(OverridePaths, MaxOverrides)
    /\ destAtStart \in DestEntries
    /\ destEntry = destAtStart
    /\ gpc = "env"
    /\ cwdChanged = FALSE
    /\ targets = <<>>
    /\ buildCalls = <<>>
    /\ buildRc = 0
    /\ srcFiles = {}
    /\ mkdirCalls = 0
    /\ destDir = {}
    /\ copyCalls = 0
    /\ gexit = 0

\* an exception leaves main (SystemExit included): the interpreter exits
\* with the given status
GFatal(status) ==
    /\ gpc' = "fatal"
    /\ gexit' = status

\* lines 27-29
GCheckEnv ==
    /\ gpc = "env"
    /\ IF TopMissing(top)
       THEN GFatal(1)
       ELSE gpc' = "chdir" /\ UNCHANGED gexit
    /\ UNCHANGED <<rvars, top, topIsDir, argv, argStubSrcJar,
                   destAtStart, cwdChanged,
                   targets, buildCalls, buildRc, srcFiles, destEntry,
                   mkdirCalls, destDir, copyCalls>>

\* line 30; os.chdir of an unset or empty path, or of a path that is no
\* directory, raises
GChdir ==
    /\ gpc = "chdir"
    /\ IF top.set /\ top.val # "" /\ topIsDir
       THEN gpc' = "parse" /\ cwdChanged' = TRUE /\ UNCHANGED gexit
       ELSE GFatal(1) /\ UNCHANGED cwdChanged
    /\ UNCHANGED <<rvars, top, topIsDir, argv, argStubSrcJar,
                   destAtStart, targets, buildCalls, buildRc, srcFiles, destEntry,
                   mkdirCalls, destDir, copyCalls>>

\* lines 32-55: parse_args raises SystemExit with status 0 after printing
\* the help and with status 2 after reporting an error
GParseArgs ==
    /\ gpc = "parse"
    /\ IF ParseOutcome(argv) = "ok"
       THEN gpc' = "exists" /\ UNCHANGED gexit
       ELSE IF ParseOutcome(argv) = "help"
            THEN GFatal(0)
            ELSE GFatal(2)
    /\ UNCHANGED <<rvars, top, topIsDir, argv, argStubSrcJar,
                   destAtStart, cwdChanged,
                   targets, buildCalls, buildRc, srcFiles, destEntry,
                   mkdirCalls, destDir, copyCalls>>

\* Mutant of GCheckOutputDir: the exists() test is dropped.
GCheckOutputDirSkipped ==
    /\ gpc = "exists"
    /\ gpc' = "resolve"
    /\ UNCHANGED <<rvars, top, topIsDir, argv, argStubSrcJar,
                   destAtStart, cwdChanged,
                   targets, buildCalls, buildRc, srcFiles, destEntry,
                   mkdirCalls, destDir, copyCalls, gexit>>

\* lines 57-59
GCheckOutputDir ==
    /\ gpc = "exists"
    /\ IF PathExists(destEntry)
       THEN GFatal(1)
       ELSE gpc' = "resolve" /\ UNCHANGED gexit
    /\ UNCHANGED <<rvars, top, topIsDir, argv, argStubSrcJar,
                   destAtStart, cwdChanged,
                   targets, buildCalls, buildRc, srcFiles, destEntry,
                   mkdirCalls, destDir, copyCalls>>

\* lines 61-102
GResolve ==
    /\ gpc = "resolve"
    /\ targets' = ResolveTargets(argStubSrcJar)
    /\ gpc' = "build"
    /\ UNCHANGED <<rvars, top, topIsDir, argv, argStubSrcJar,
                   destAtStart, cwdChanged,
                   buildCalls, buildRc, srcFiles, destEntry,
                   mkdirCalls, destDir, copyCalls, gexit>>

\* what the build leaves on disk: every goal, or every goal but one
BuildOutputs(goals) ==
    {Range(goals)} \cup {Range(goals) \ {g} : g \in Range(goals)}

\* lines 110-112: one blocking build invocation with all targets as goals
GBuild ==
    /\ gpc = "build"
    /\ \/ \* the child cannot be started: subprocess.run raises OSError
          /\ GFatal(1)
          /\ UNCHANGED <<buildCalls, buildRc, srcFiles, destEntry>>
       \/ \* the build runs to its end; it may itself create output_dir
          /\ buildCalls' = Append(buildCalls,
                 [cmd |-> <<"build/soong/soong_ui.bash", "--make-mode">>,
                  goals |-> targets])
          /\ \E rc \in BuildStatuses, out \in BuildOutputs(targets),
                entry \in {destEntry, "present"} :
                /\ buildRc' = rc
                /\ srcFiles' = out
                /\ destEntry' = entry
                /\ IF RunRaises(GatherCheck, rc)
                   THEN GFatal(1)
                   ELSE gpc' = "mkdir" /\ UNCHANGED gexit
    /\ UNCHANGED <<rvars, top, topIsDir, argv, argStubSrcJar,
                   destAtStart, cwdChanged,
                   targets, mkdirCalls, destDir, copyCalls>>

\* lines 115-116; os.mkdir raises FileExistsError on a taken name
GMkdir ==
    /\ gpc = "mkdir"
    /\ IF NameTaken(destEntry)
       THEN GFatal(1) /\ UNCHANGED <<destEntry, mkdirCalls>>
       ELSE /\ destEntry' = "present"
            /\ mkdirCalls' = mkdirCalls + 1
            /\ gpc' = "copy"
            /\ UNCHANGED gexit
    /\ UNCHANGED <<rvars, top, topIsDir, argv, argStubSrcJar,
                   destAtStart, cwdChanged,
                   targets, buildCalls, buildRc, srcFiles, destDir, copyCalls>>

\* shutil.copy(t, output_dir): the copy is named after t's last component
\* and replaces an entry of that name
CopyInto(dir, t) ==
    {e \in dir : e[1] # Basename(t)} \cup {<<Basename(t), t>>}

\* lines 120-122, one iteration; copying a missing file raises
GCopy ==
    /\ gpc = "copy"
    /\ copyCalls < Len(targets)
    /\ LET t == targets[copyCalls + 1]
       IN  IF t \in srcFiles
           THEN /\ destDir' = CopyInto(destDir, t)
                /\ copyCalls' = copyCalls + 1
                /\ UNCHANGED <<gpc, gexit>>
           ELSE GFatal(1) /\ UNCHANGED <<destDir, copyCalls>>
    /\ UNCHANGED <<rvars, top, topIsDir, argv, argStubSrcJar,
                   destAtStart, cwdChanged,
                   targets, buildCalls, buildRc, srcFiles, destEntry,
                   mkdirCalls>>

\* the loop ends and main returns: exit status 0
GFinish ==
    /\ gpc = "copy"
    /\ copyCalls = Len(targets)
    /\ gpc' = "done"
    /\ gexit' = 0
    /\ UNCHANGED <<rvars, top, topIsDir, argv, argStubSrcJar,
                   destAtStart, cwdChanged,
                   targets, buildCalls, buildRc, srcFiles, destEntry,
                   mkdirCalls, destDir, copyCalls>>

GNext ==
    \/ GCheckEnv
    \/ GChdir
    \/ GParseArgs
    \/ GCheckOutputDir
    \/ GResolve
    \/ GBuild
    \/ GMkdir
    \/ GCopy
    \/ GFinish

\* the Refresher is not running
RIdle ==
    /\ layout = <<>> /\ argProjects = <<>> /\ rpc = "off"
    /\ rargv = [help |-> FALSE, unknown |-> FALSE]
    /\ discovered = <<>> /\ selected = <<>> /\ idx = 0
    /\ reports = {} /\ baselines = {} /\ calls = <<>>
    /\ lastRc = 0 /\ rerr = "" /\ rexit = 0
    /\ preReports = {} /\ deletedReports = {} /\ deletedBaselines = {}

GatherInit == GInit /\ RIdle

SpecGather == GatherInit /\ [][GNext]_vars

\* The script is one thread that runs until it returns or raises, and the
\* build it waits for is assumed to end.
SpecGatherFair == SpecGather /\ WF_vars(GNext)

-----------------------------------------------------------------------------
(* Artifact Gatherer: properties *)

\* the script has ended with an error
GFailed == gpc = "fatal" /\ gexit # 0

\* the script has ended
GEnded == gpc \in {"fatal", "done"}

\* output_dir existed when the script was started
DestExistedAtStart == destAtStart = "present"

\* C1 (as claimed): when the destination directory exists at invocation
\* the build is never invoked and the run, once ended, has ended in a fatal
\* error.
C1_ExistingDestIsFatal ==
    DestExistedAtStart =>
        /\ buildCalls = <<>>
        /\ (GEnded => GFailed)

\* C1 (amended): when the destination directory exists at invocation the
\* run never passes the exists() test, so it issues no build; it always
\* ends, and it ends in a fatal error with a non-zero status unless the
\* command line asks for the help, which ends it with status 0 at the
\* parse, after the chdir.
C1_ExistingDestNeverBuilds ==
    /\ [](DestExistedAtStart =>
            /\ buildCalls = <<>>
            /\ gpc \in {"env", "chdir", "parse", "exists", "fatal"}
            /\ (gpc = "fatal" =>
                    \/ gexit # 0
                    \/ argv.help /\ ~argv.novalue /\ cwdChanged))
    /\ ((DestExistedAtStart /\ gpc = "env") ~> gpc = "fatal")
    /\ ((DestExistedAtStart /\ gpc = "env" /\ ~argv.help) ~> GFailed)

\* C1 witness: a run with overrides whose destination existed was stopped
\* by the exists() test itself.
C1_Witness ==
    /\ DestExistedAtStart
    /\ cwdChanged /\ ParseOutcome(argv) = "ok" /\ argStubSrcJar # <<>>
    /\ GFailed /\ gexit = 1

\* C2 (as claimed): after a successful run the destination holds as many
\* files as there are resolved targets and a file named after each target.
C2_OneCopyPerTarget ==
    (gpc = "done" /\ gexit = 0) =>
        /\ Cardinality(destDir) = Len(targets)
        /\ \A i \in DOMAIN targets :
              \E e \in destDir : e[1] = Basename(targets[i])

\* the environment does not provide the root directory
RootAbsent == ~top.set \/ top.val = ""

\* C4: when the root directory is absent the script stops at the
\* environment check: it attempts no chdir, build, mkdir or copy, and its
\* only other position is the fatal end with a non-zero status.
C4_NoRootNoMutation ==
    RootAbsent =>
        /\ gpc \in {"env", "fatal"}
        /\ ~cwdChanged
        /\ buildCalls = <<>>
        /\ mkdirCalls = 0 /\ copyCalls = 0 /\ destDir = {}
        /\ (gpc = "fatal" => gexit # 0)

\* C4 witness: the run with the variable unset has failed.
C4_Witness == ~top.set /\ GFailed

\* C5: the build is never invoked twice; a run that gets past the build
\* step invoked it once with exactly the resolved targets as goals and saw
\* status 0; a build that returned non-zero ends the run at once, with a
\* non-zero status, no os.mkdir by the script and no copy.
C5_BuildOnceAndFatal ==
    /\ Len(buildCalls) <= 1
    /\ (gpc \in {"mkdir", "copy", "done"} =>
            /\ Len(buildCalls) = 1
            /\ buildCalls[1].goals = targets
            /\ buildCalls[1].cmd = <<"build/soong/soong_ui.bash", "--make-mode">>
            /\ buildRc = 0)
    /\ ((buildCalls # <<>> /\ buildRc # 0) =>
            /\ GFailed
            /\ mkdirCalls = 0
            /\ copyCalls = 0 /\ destDir = {})

\* C5 witness: a build of the default targets failed and the run is over.
C5_Witness ==
    /\ Len(buildCalls) = 1 /\ buildRc # 0 /\ GFailed
    /\ argStubSrcJar = <<>> /\ Len(buildCalls[1].goals) = 13

\* the documented default list, written out
DocumentedDefaults ==
    << <<"out", "target", "common", "docs", "api-stubs-docs-non-updatable-stubs.srcjar">>,
       <<"out", "target", "common", "docs", "system-api-stubs-docs-non-updatable-stubs.srcjar">>,
       <<"out", "target", "common", "docs", "test-api-stubs-docs-non-updatable-stubs.srcjar">>,
       <<"out", "target", "common", "docs", "module-lib-api-stubs-docs-non-updatable-stubs.srcjar">>,
       <<"out", "target", "common", "obj", "api.xml">>,
       <<"out", "target", "common", "obj", "system-api.xml">>,
       <<"out", "target", "common", "obj", "module-lib-api.xml">>,
       <<"out", "target", "common", "obj", "system-server-api.xml">>,
       <<"out", "target", "common", "obj", "test-api.xml">>,
       <<"out", "soong", "lint", "api_versions_public.xml">>,
       <<"out", "soong", "lint", "api_versions_system.xml">>,
       <<"out", "soong", "lint", "api_versions_module_lib.xml">>,
       <<"out", "soong", "lint", "api_versions_system_server.xml">> >>

\* the target list has been resolved
GResolved == gpc \in {"build", "mkdir", "copy", "done"}

\* C8: without overrides the resolved list is the 13 documented defaults in
\* their order; with overrides it is the overrides in the order given and
\* holds no default entry.
C8_TargetResolution ==
    GResolved =>
        IF argStubSrcJar = <<>>
        THEN targets = DocumentedDefaults /\ Len(targets) = 13
        ELSE /\ targets = argStubSrcJar
             /\ Range(targets) \cap Range(DocumentedDefaults) = {}

\* C8 witness: both cases were resolved: here, a list of two overrides.
C8_Witness ==
    GResolved /\ Len(argStubSrcJar) = 2 /\ argStubSrcJar[1] # argStubSrcJar[2]


-----------------------------------------------------------------------------
(* Baseline Refresher: paths (lines 32-33 and 60-64) *)

Parent(p) == SubSeq(p, 1, Len(p) - 1)

IsPrefix(d, p) == Len(d) <= Len(p) /\ SubSeq(p, 1, Len(d)) = d

\* Path(__file__).parent.parent, for a checkout at tools/metalava
MetalavaDir == <<"tools", "metalava">>

\* metalava_dir.parent.parent / "out" / "metalava"
MetalavaOutDir == Parent(Parent(MetalavaDir)) \o <<"out", "metalava">>

\* project_dir / "src" / "test" / "resources" / resource_path
ResourcePath(project_dir, resource) ==
    project_dir \o <<"src", "test", "resources", resource>>

\* metalava_out_dir / project_name / "build" / "test-results" / "test"
TestReportsDir(project_name) ==
    MetalavaOutDir \o <<project_name, "build", "test-results", "test">>

-----------------------------------------------------------------------------
(* Baseline Refresher: discovery (lines 36-51) *)

\* A line of a build file is the sequence of its pieces; the Python test
\* '"""id("metalava-model-provider-plugin")""" in line' is a substring
\* test, true when one of the pieces is the marker.
Marker == "id(\"metalava-model-provider-plugin\")"

LineHasMarker(line) == \E i \in DOMAIN line : line[i] = Marker

\* BaselineProject(name=project_dir.name, baseline_file=resource_path(...))
CandidateProject(name) ==
    [name |-> name,
     baseline_file |-> ResourcePath(MetalavaDir \o <<name>>,
                                    "model-test-suite-baseline.txt")]

\* the project appended after the scan
FixedProject ==
    [name |-> "metalava",
     baseline_file |-> ResourcePath(MetalavaDir \o <<"metalava">>,
                                    "source-model-provider-baseline.txt")]

\* the inner loop: one append for every line that holds the marker
RECURSIVE MarkerProjects(_, _)
MarkerProjects(name, lines) ==
    IF lines = <<>> THEN <<>>
    ELSE (IF LineHasMarker(Head(lines)) THEN <<CandidateProject(name)>>
          ELSE <<>>)
         \o MarkerProjects(name, Tail(lines))

\* the outer loop over the build files the glob yields
RECURSIVE ScanBuildFiles(_)
ScanBuildFiles(files) ==
    IF files = <<>> THEN <<>>
    ELSE MarkerProjects(Head(files).name, Head(files).lines)
         \o ScanBuildFiles(Tail(files))

FindBaselineProjects(files) == ScanBuildFiles(files) \o <<FixedProject>>

-----------------------------------------------------------------------------
(* Baseline Refresher: filter (lines 69-71) *)

\* Mutant of FilterProjects: the filter is never applied.
FilterProjectsKeepAll(projects, names) == projects

\* Mutant of FilterProjects: the result follows the order of the names
\* given, not the order of discovery.
RECURSIVE FilterProjectsByNameOrder(_, _)
FilterProjectsByNameOrder(projects, names) ==
    IF names = <<>> THEN <<>>
    ELSE SelectSeq(projects, LAMBDA p : p.name = Head(names))
         \o FilterProjectsByNameOrder(
                SelectSeq(projects, LAMBDA p : p.name # Head(names)),
                Tail(names))

\* if args.projects: [p for p in baseline_projects if p.name in args.projects]
FilterProjects(projects, names) ==
    IF names # <<>>
    THEN SelectSeq(projects, LAMBDA p : p.name \in Range(names))
    ELSE projects

-----------------------------------------------------------------------------
(* Baseline Refresher: report files (lines 78-80 and 92) *)

\* A file name is <<prefix, stem, extension>>, so that "TEST-a.xml" is
\* <<"TEST-", "a", ".xml">> and the pattern TEST-*.xml is a test of the
\* first and last piece.
NameMatches(name) == name[1] = "TEST-" /\ name[3] = ".xml"

\* Mutant of Glob: the pattern is "TEST-*.xml", without the "**/".
GlobTopLevelOnly(dir) ==
    {f \in reports : f.dir = dir /\ NameMatches(f.name)}

\* dir.glob("**/TEST-*.xml"): every entry at any depth below dir whose name
\* matches, directories included
Glob(dir) ==
    {f \in reports : IsPrefix(dir, f.dir) /\ NameMatches(f.name)}

-----------------------------------------------------------------------------
(* Baseline Refresher: inputs *)

\* longest list of project-name filters tried
MaxFilter == 2

\* the subdirectories of metalava_dir that hold a build.gradle.kts
SubdirNames == {"metalava-model-psi", "metalava"}

MarkerLine   == <<"    ", Marker>>
OtherLine    == <<"plugins {">>
NearMissLine == <<"    ", "id(\"metalava-model-provider\")">>

\* build files without the marker, with it on one line, with it on two
BuildContents == { <<OtherLine, NearMissLine>>,
                   <<OtherLine, MarkerLine>>,
                   <<MarkerLine, OtherLine, MarkerLine>> }

\* the glob yields each subdirectory's build file once, in any order
Layouts ==
    {l \in SeqsUpTo([name : SubdirNames, lines : BuildContents],
                    Cardinality(SubdirNames)) :
        \A i, j \in DOMAIN l : i # j => l[i].name # l[j].name}

\* names a user may give; one of them names no project
FilterNames == {"metalava", "metalava-model-psi", "nosuch"}

FTop(d)    == [dir |-> d, name |-> <<"TEST-", "a", ".xml">>, isDir |-> FALSE]
FNested(d) == [dir |-> d \o <<"sub">>, name |-> <<"TEST-", "b", ".xml">>,
               isDir |-> FALSE]
FOther(d)  == [dir |-> d, name |-> <<"TEST-", "c", ".txt">>, isDir |-> FALSE]
FDir(d)    == [dir |-> d, name |-> <<"TEST-", "d", ".xml">>, isDir |-> TRUE]
\* a report that lies beside, not below, the results directory
FBeside(d) == [dir |-> Parent(d), name |-> <<"TEST-", "e", ".xml">>,
               isDir |-> FALSE]

\* what out/metalava may hold when the script starts
InitialReports ==
    { {},
      UNION {{FTop(TestReportsDir(n)), FNested(TestReportsDir(n)),
              FOther(TestReportsDir(n)), FBeside(TestReportsDir(n))}
             : n \in SubdirNames},
      UNION {{FTop(TestReportsDir(n)), FDir(TestReportsDir(n))}
             : n \in SubdirNames} }

\* the baseline files that may be on disk when the script starts
AllBaselines ==
    {CandidateProject(n).baseline_file : n \in SubdirNames}
        \cup {FixedProject.baseline_file}

\* the exit statuses gradle may return
GradleStatuses == {0, 1}

\* what a test run leaves in the results directory it writes to
TestOutputs(d) == { {}, {FTop(d), FNested(d)} }

\* Mutant of RefreshCheck: the subprocesses are run with check=True.
RefreshCheckOn == TRUE

\* subprocess.run(...) of the Refresher: check is left at its default
RefreshCheck == FALSE

\* The command lines tried, beside the names. "help": -h or --help is
\* given (the parser is built with argparse's default add_help);
\* "unknown": an option the parser does not declare is given.
RCommandLines == [help : BOOLEAN, unknown : BOOLEAN]

\* args_parser.parse_args(args): the help option ends the parse when it is
\* read; an undeclared option is an error found at the end; any number of
\* positional arguments, none included, is accepted (nargs='*').
RParseOutcome(cl) ==
    IF cl.help THEN "help"
    ELSE IF cl.unknown THEN "error"
    ELSE "ok"

RInit ==
    /\ layout \in Layouts
    /\ rargv \in RCommandLines
    /\ argProjects \in SeqsUpTo(FilterNames, MaxFilter)
    /\ reports \in InitialReports
    /\ baselines \in {{}, AllBaselines}
    /\ rpc = "parse"
    /\ discovered = <<>> /\ selected = <<>> /\ idx = 0
    /\ calls = <<>> /\ lastRc = 0 /\ rerr = "" /\ rexit = 0
    /\ preReports = {} /\ deletedReports = {} /\ deletedBaselines = {}

\* lines 55-57: parse_args raises SystemExit with status 0 after printing
\* the help and with status 2 after reporting an error
RParseArgs ==
    /\ rpc = "parse"
    /\ IF RParseOutcome(rargv) = "ok"
       THEN rpc' = "discover" /\ UNCHANGED <<rerr, rexit>>
       ELSE IF RParseOutcome(rargv) = "help"
            THEN rpc' = "fatal" /\ rerr' = "help" /\ rexit' = 0
            ELSE rpc' = "fatal" /\ rerr' = "usage" /\ rexit' = 2
    /\ UNCHANGED <<gvars, layout, rargv, argProjects, discovered, selected,
                   idx, reports, baselines, calls, lastRc, preReports,
                   deletedReports, deletedBaselines>>

\* line 67
RDiscover ==
    /\ rpc = "discover"
    /\ discovered' = FindBaselineProjects(layout)
    /\ rpc' = "filter"
    /\ UNCHANGED <<gvars, layout, rargv, argProjects, selected, idx, reports,
                   baselines, calls, lastRc, rerr, rexit, preReports,
                   deletedReports, deletedBaselines>>

\* lines 70-71
RFilter ==
    /\ rpc = "filter"
    /\ selected' = FilterProjects(discovered, argProjects)
    /\ rpc' = "loop"
    /\ UNCHANGED <<gvars, layout, rargv, argProjects, discovered, idx, reports,
                   baselines, calls, lastRc, rerr, rexit, preReports,
                   deletedReports, deletedBaselines>>

\* the project of the current iteration
Current == selected[idx]

\* lines 73-74: the loop takes its next project
RBeginProject ==
    /\ rpc = "loop"
    /\ idx < Len(selected)
    /\ idx' = idx + 1
    /\ preReports' = reports
    /\ rpc' = "del_reports"
    /\ UNCHANGED <<gvars, layout, rargv, argProjects, discovered, selected, reports,
                   baselines, calls, lastRc, rerr, rexit, deletedReports, deletedBaselines>>

\* lines 78-80: unlink every match; unlink of a directory raises, after
\* the matches the glob yielded before it have been unlinked
RDeleteReports ==
    /\ rpc = "del_reports"
    /\ LET matched == Glob(TestReportsDir(Current.name))
           files   == {f \in matched : ~f.isDir}
       IN  IF files = matched
           THEN /\ reports' = reports \ matched
                /\ deletedReports' = deletedReports \cup matched
                /\ rpc' = "del_baseline"
                /\ UNCHANGED <<rerr, rexit>>
           ELSE \E gone \in SUBSET files :
                /\ reports' = reports \ gone
                /\ deletedReports' = deletedReports \cup gone
                /\ rpc' = "fatal"
                /\ rerr' = "unlink"
                /\ rexit' = 1
    /\ UNCHANGED <<gvars, layout, rargv, argProjects, discovered, selected, idx,
                   baselines, calls, lastRc, preReports, deletedBaselines>>

\* lines 83-85: unlink(missing_ok=True)
RDeleteBaseline ==
    /\ rpc = "del_baseline"
    /\ baselines' = baselines \ {Current.baseline_file}
    /\ deletedBaselines' =
          deletedBaselines \cup (baselines \cap {Current.baseline_file})
    /\ rpc' = "test"
    /\ UNCHANGED <<gvars, layout, rargv, argProjects, discovered, selected, idx,
                   reports, calls, lastRc, rerr, rexit, preReports,
                   deletedReports>>

\* the outcome of a subprocess.run whose child returned rc
RAfterRun(rc, next) ==
    /\ lastRc' = rc
    /\ IF RunRaises(RefreshCheck, rc)
       THEN rpc' = "fatal" /\ rerr' = "subprocess" /\ rexit' = 1
       ELSE rpc' = next /\ UNCHANGED <<rerr, rexit>>

\* subprocess.run raises OSError when the child cannot be started
\* (./gradlew missing or not executable, argument list too long): no
\* child runs and the script ends
RSpawnFails ==
    /\ rpc' = "fatal" /\ rerr' = "spawn" /\ rexit' = 1
    /\ UNCHANGED <<calls, lastRc, reports, baselines>>

\* line 89: ./gradlew :<project>:test --continue
RRunTests ==
    /\ rpc = "test"
    /\ \/ RSpawnFails
       \/ /\ calls' = Append(calls, [kind |-> "test",
                                     project |-> Current.name,
                                     goal |-> ":" \o Current.name \o ":test"])
          /\ \E rc \in GradleStatuses,
                out \in TestOutputs(TestReportsDir(Current.name)) :
                /\ reports' = reports \cup out
                /\ RAfterRun(rc, "gen")
          /\ UNCHANGED baselines
    /\ UNCHANGED <<gvars, layout, rargv, argProjects, discovered, selected, idx,
                   preReports, deletedReports, deletedBaselines>>

\* lines 92-95: ./gradlew :metalava-model-testsuite-cli:run --args=...;
\* the tool writes the baseline file when it succeeds
RUpdateBaseline ==
    /\ rpc = "gen"
    /\ \/ RSpawnFails
       \/ /\ calls' = Append(calls,
                 [kind |-> "gen",
                  project |-> Current.name,
                  goal |-> ":metalava-model-testsuite-cli:run",
                  test_report_files |-> Glob(TestReportsDir(Current.name)),
                  baseline_file |-> Current.baseline_file])
          /\ \E rc \in GradleStatuses :
                /\ baselines' = IF rc = 0
                                THEN baselines \cup {Current.baseline_file}
                                ELSE baselines
                /\ RAfterRun(rc, "loop")
          /\ UNCHANGED reports
    /\ UNCHANGED <<gvars, layout, rargv, argProjects, discovered, selected, idx,
                   preReports, deletedReports, deletedBaselines>>

\* the loop is exhausted and main returns: exit status 0
RFinish ==
    /\ rpc = "loop"
    /\ idx = Len(selected)
    /\ rpc' = "done"
    /\ rexit' = 0
    /\ UNCHANGED <<gvars, layout, rargv, argProjects, discovered, selected, idx,
                   reports, baselines, calls, lastRc, rerr, preReports,
                   deletedReports, deletedBaselines>>

RNext ==
    \/ RParseArgs
    \/ RDiscover
    \/ RFilter
    \/ RBeginProject
    \/ RDeleteReports
    \/ RDeleteBaseline
    \/ RRunTests
    \/ RUpdateBaseline
    \/ RFinish

\* the Gatherer is not running
GIdle ==
    /\ top = EnvUnset /\ topIsDir = FALSE
    /\ argv = [help |-> FALSE, positionals |-> <<>>, unknown |-> FALSE,
               novalue |-> FALSE]
    /\ argStubSrcJar = <<>> /\ gpc = "off" /\ cwdChanged = FALSE
    /\ targets = <<>> /\ buildCalls = <<>> /\ buildRc = 0
    /\ srcFiles = {} /\ destAtStart = "absent" /\ destEntry = "absent"
    /\ mkdirCalls = 0
    /\ destDir = {} /\ copyCalls = 0 /\ gexit = 0

RefreshInit == GIdle /\ RInit

SpecRefresh == RefreshInit /\ [][RNext]_vars

-----------------------------------------------------------------------------
(* Baseline Refresher: properties *)

\* find_baseline_projects has returned
RDiscovered ==
    rpc \notin {"off", "parse", "discover"} /\ rerr \notin {"help", "usage"}

\* the positions of the build files that hold the marker line
MarkedDirs == {i \in DOMAIN layout :
                  \E k \in DOMAIN layout[i].lines :
                      \E t \in DOMAIN layout[i].lines[k] :
                          layout[i].lines[k][t] = Marker}

\* C3 (as claimed): the list returned by discovery holds one candidate for
\* each subdirectory whose build file has the marker line, then the fixed
\* project "metalava" as its last entry, and no entry twice.
C3_OneCandidatePerMarkedDir ==
    RDiscovered =>
        /\ Len(discovered) = Cardinality(MarkedDirs) + 1
        /\ discovered[Len(discovered)].name = "metalava"
        /\ \A i \in MarkedDirs :
              Cardinality({j \in 1..(Len(discovered) - 1) :
                              discovered[j].name = layout[i].name}) = 1
        /\ \A i, j \in DOMAIN discovered :
              i # j => discovered[i] # discovered[j]

\* the entries that matched **/TEST-*.xml below the current project's
\* results directory when its iteration began
PreExistingReports ==
    {f \in preReports :
        /\ Len(f.dir) >= Len(TestReportsDir(selected[idx].name))
        /\ SubSeq(f.dir, 1, Len(TestReportsDir(selected[idx].name)))
              = TestReportsDir(selected[idx].name)
        /\ f.name[1] = "TEST-" /\ f.name[3] = ".xml"}

\* C6: when a project's test run is about to be invoked, no entry that
\* matched the report pattern below the project's results directory at the
\* start of the project's iteration is left on disk.
C6_ReportsGoneBeforeTests ==
    (rpc = "test" /\ idx \in DOMAIN selected) =>
        PreExistingReports \cap reports = {}

\* C6 witness: a project with a top-level and a nested report is about to
\* be tested.
C6_Witness ==
    /\ rpc = "test"
    /\ \E f, g \in PreExistingReports :
          /\ f.dir = TestReportsDir(selected[idx].name)
          /\ g.dir # TestReportsDir(selected[idx].name)

\* the names given on the command line
FilterSet == {argProjects[i] : i \in DOMAIN argProjects}

\* the projects whose iteration has begun, in the order they were taken
Processed == [i \in 1..idx |-> selected[i]]

\* the discovered projects with a name in the filter, in discovery order
RECURSIVE NamedIn(_, _)
NamedIn(projects, names) ==
    IF projects = <<>> THEN <<>>
    ELSE IF Head(projects).name \in names
         THEN <<Head(projects)>> \o NamedIn(Tail(projects), names)
         ELSE NamedIn(Tail(projects), names)

\* C7: with a non-empty filter list the projects processed are, at every
\* point, the first ones of the discovered projects whose name is in the
\* list, taken in discovery order, and all of them once the script is done;
\* a name that matches no project raises nothing: a run whose command line
\* parses does not end in an error before an iteration has begun, and the
\* only exits before the loop are those of the argument parser (the help,
\* an undeclared option), whatever the names are.
C7_FilterKeepsDiscoveryOrder ==
    argProjects # <<>> =>
        /\ (RDiscovered /\ rpc # "filter") =>
              LET want == NamedIn(discovered, FilterSet)
              IN  /\ idx <= Len(want)
                  /\ Processed = SubSeq(want, 1, idx)
                  /\ (rpc = "done" => idx = Len(want))
        /\ (rpc = "fatal" /\ idx = 0) =>
              /\ rerr \in {"help", "usage"}
              /\ (rargv.help \/ rargv.unknown)

\* C7 witness: a run filtered by a name that matches no project and a name
\* that matches one is done, with status 0: it processed the matching
\* project and passed over a discovered project of another name.
C7_Witness ==
    /\ rpc = "done" /\ rexit = 0
    /\ argProjects = <<"nosuch", "metalava">>
    /\ idx >= 1
    /\ \A i \in 1..idx : selected[i].name = "metalava"
    /\ \E j \in DOMAIN discovered : discovered[j].name = "metalava-model-psi"

\* C9: the subprocesses that ran are, at every point, one test run and
\* then one baseline generation for each selected project in order; after
\* a subprocess has returned, whatever its exit status, the script goes on
\* to its next step; no exit status ends the script: what ends it before
\* the loop is exhausted is an exit of the argument parser (the help, with
\* status 0, or an undeclared option, with status 2), before any
\* subprocess has run, or an error the operating system raises (a failed
\* unlink, a child that could not be started); and when the loop is
\* exhausted every selected project has had both runs and the script exits
\* with status 0.
C9_FailuresDoNotAbort ==
    /\ [](rpc # "off" =>
            /\ \A k \in DOMAIN calls :
                  /\ calls[k].kind = (IF k % 2 = 1 THEN "test" ELSE "gen")
                  /\ (k + 1) \div 2 \in DOMAIN selected
                  /\ calls[k].project = selected[(k + 1) \div 2].name
            /\ rerr # "subprocess"
            /\ (rpc = "fatal" =>
                    \/ rerr \in {"help", "usage"} /\ calls = <<>> /\ idx = 0
                    \/ rerr \in {"unlink", "spawn"} /\ rexit # 0)
            /\ (rpc = "gen" => Len(calls) + 1 = 2 * idx)
            /\ (rpc \in {"loop", "done"} => Len(calls) = 2 * idx)
            /\ (rpc = "done" => Len(calls) = 2 * Len(selected) /\ rexit = 0))
    /\ [][calls' # calls => rpc' \in {"gen", "loop"}]_vars

\* C9 witness: the script is done with two projects although the last
\* subprocess, and so at least one, returned non-zero.
C9_Witness ==
    rpc = "done" /\ Len(selected) >= 2 /\ lastRc # 0 /\ Len(calls) >= 4

\* the discovered projects that the filter excluded
Excluded == {discovered[i] : i \in {j \in DOMAIN discovered :
                                       discovered[j].name \notin FilterSet}}

\* C10: in a filtered run every report the script unlinked matched
\* **/TEST-*.xml below the results directory of a processed project, every
\* baseline it unlinked is that of a processed project, and nothing below
\* the results directory of an excluded project, nor its baseline file, was
\* unlinked.
C10_ExcludedProjectsUntouched ==
    (argProjects # <<>> /\ RDiscovered) =>
        /\ \A f \in deletedReports :
              /\ f.name[1] = "TEST-" /\ f.name[3] = ".xml"
              /\ \E i \in 1..idx :
                    /\ selected[i].name \in FilterSet
                    /\ IsPrefix(TestReportsDir(selected[i].name), f.dir)
        /\ \A b \in deletedBaselines :
              \E i \in 1..idx : /\ selected[i].baseline_file = b
                                /\ selected[i].name \in FilterSet
        /\ \A p \in Excluded :
              /\ p.baseline_file \notin deletedBaselines
              /\ \A f \in deletedReports :
                    ~IsPrefix(TestReportsDir(p.name), f.dir)

\* C10 witness: a filtered run is done, it unlinked reports and a
\* baseline, and an excluded project still has its reports and baseline.
C10_Witness ==
    /\ argProjects # <<>> /\ rpc = "done"
    /\ deletedReports # {} /\ deletedBaselines # {}
    /\ \E p \in Excluded :
          /\ p.baseline_file \in baselines
          /\ FTop(TestReportsDir(p.name)) \in reports
          /\ FNested(TestReportsDir(p.name)) \in reports

=============================================================================
